---- MODULE Spec2Model ----
(***************************************************************************)
(* Model of the orchestration loop (agentic_workflow.run_agentic_workflow) *)
(* with the agent operations it calls (agents.Agent.handoff, RunTool) and  *)
(* the tool server's request handler (my_mcp.server.SimpleServer._handle), *)
(* of one tool channel (my_mcp.client.SimpleClient._roundtrip against      *)
(* SimpleServer.run over the server's stdin and stdout) and of the tool    *)
(* registry (SimpleServer.tool).                                           *)
(*                                                                         *)
(* A generated text is a sequence of items; an item is plain prose, the    *)
(* termination marker, one <tool_call>..</tool_call> block or one          *)
(* <handoff>..</handoff> block. The backend's stream is a sequence of      *)
(* chunks, each chunk a sequence of items.                                 *)
(***************************************************************************)
EXTENDS Integers, Sequences, FiniteSets, TLC

\* ------------------------------------------------------------------ bounds
MaxTotalSteps == 3
MaxSubagentSteps == 1
MaxHandoffs == 2
MaxCalls == 3
MaxFragments == 3
MaxBlocks == 3
MaxWorkspaceCalls == 2
MaxRegs == 3

\* ------------------------------------------------------------------ agents
Root == "Orchestrator"
Mail == "MailAgent"
AgentNames == {Root, Mail}

\* the hand-off lists the program sets up, as lists of agent names
handoffs == [a \in AgentNames |-> IF a = Root THEN <<Mail>> ELSE <<Root>>]

\* the tools each agent's server registers
ServerTools ==
  [a \in AgentNames |->
     IF a = Root
     THEN {"log_ticket", "write_report", "send_sms_alert", "assign_task"}
     ELSE {"search_emails_by_sender", "inspect_email", "inspect_attachment",
           "block_sender", "report_to_orchestrator"}]

\* ------------------------------------------------------------------ texts
Item(k, v) == [k |-> k, v |-> v]
Prose == Item("txt", "")
TermItem == Item("term", "")
ToolCallItem(p) == Item("tc", p)
HandoffItem(t) == Item("ho", t)

\* payload kinds of a tool-call block: "nobrace" (does not start with a
\* brace, the pattern does not match there), "badjson" (braces, not JSON),
\* "empty" (the object {}), "noname" (an object without "name"), or the
\* value of "name" of a well-formed call
NonCallPayloads == {"nobrace", "badjson", "empty", "noname"}

RECURSIVE Flatten(_)
Flatten(chunks) ==
  IF chunks = <<>> THEN <<>> ELSE Head(chunks) \o Flatten(Tail(chunks))

HasKind(text, k) == \E i \in 1..Len(text) : text[i].k = k

\* "</terminate>" in text
detect_terminate(text) == HasKind(text, "term")

\* extract_tool_call giving back the captured text when it is not JSON
RECURSIVE extract_tool_callKeepsRaw(_)
extract_tool_callKeepsRaw(text) ==
  IF text = <<>> THEN <<>>
  ELSE LET it == Head(text) IN
       IF it.k # "tc" \/ it.v = "nobrace" THEN extract_tool_callKeepsRaw(Tail(text))
       ELSE IF it.v = "badjson" THEN << [keys |-> {"raw"}, name |-> ""] >>
       ELSE IF it.v = "empty" THEN << [keys |-> {}, name |-> ""] >>
       ELSE IF it.v = "noname" THEN << [keys |-> {"arguments"}, name |-> ""] >>
       ELSE << [keys |-> {"name", "arguments"}, name |-> it.v] >>

\* extract_tool_call going on to the next block when one is not JSON
RECURSIVE extract_tool_callSkipsBad(_)
extract_tool_callSkipsBad(text) ==
  IF text = <<>> THEN <<>>
  ELSE LET it == Head(text) IN
       IF it.k # "tc" \/ it.v \in {"nobrace", "badjson"} THEN extract_tool_callSkipsBad(Tail(text))
       ELSE IF it.v = "empty" THEN << [keys |-> {}, name |-> ""] >>
       ELSE IF it.v = "noname" THEN << [keys |-> {"arguments"}, name |-> ""] >>
       ELSE << [keys |-> {"name", "arguments"}, name |-> it.v] >>

\* re.search over the text, then json.loads of the captured group:
\* <<>> is None, <<d>> is the parsed object d
RECURSIVE extract_tool_call(_)
extract_tool_call(text) ==
  IF text = <<>> THEN <<>>
  ELSE LET it == Head(text) IN
       IF it.k # "tc" \/ it.v = "nobrace" THEN extract_tool_call(Tail(text))
       ELSE IF it.v = "badjson" THEN <<>>
       ELSE IF it.v = "empty" THEN << [keys |-> {}, name |-> ""] >>
       ELSE IF it.v = "noname" THEN << [keys |-> {"arguments"}, name |-> ""] >>
       ELSE << [keys |-> {"name", "arguments"}, name |-> it.v] >>

\* the first <handoff>(.*?)</handoff> group: <<>> is None
RECURSIVE detect_handoff(_)
detect_handoff(text) ==
  IF text = <<>> THEN <<>>
  ELSE IF Head(text).k = "ho" THEN << Head(text).v >>
  ELSE detect_handoff(Tail(text))

\* `if tc is not None` in place of `if tc`
TruthyTcNotNone(tc) == tc # <<>>

\* Python truth of `tc` and of `target`
TruthyTc(tc) == tc # <<>> /\ tc[1].keys # {}
TruthyTarget(t) == t # <<>> /\ t[1] # ""

\* a closing tag outside a complete block: "</tool_call>" or "</handoff>"
\* with no opening tag before it
TcEnd == Item("tcend", "")
HoEnd == Item("hoend", "")

\* the early-break test with the termination marker ending any agent's stream
BreakStreamAnyAgent(text, isRoot) ==
  \/ HasKind(text, "tc") \/ HasKind(text, "tcend")
  \/ HasKind(text, "term")
  \/ HasKind(text, "ho") \/ HasKind(text, "hoend")

\* the early-break test made after each chunk is added to assistant_txt:
\* "</tool_call>" in the text, root and "</terminate>", "</handoff>"
BreakStream(text, isRoot) ==
  \/ HasKind(text, "tc") \/ HasKind(text, "tcend")
  \/ isRoot /\ HasKind(text, "term")
  \/ HasKind(text, "ho") \/ HasKind(text, "hoend")

\* number of chunks the for-loop pulls from the stream
RECURSIVE Pulled(_, _, _)
Pulled(stream, n, isRoot) ==
  IF n >= Len(stream) THEN Len(stream)
  ELSE IF BreakStream(Flatten(SubSeq(stream, 1, n + 1)), isRoot) THEN n + 1
  ELSE Pulled(stream, n + 1, isRoot)

ConsumeStream(stream, isRoot) ==
  Flatten(SubSeq(stream, 1, Pulled(stream, 0, isRoot)))

\* ------------------------------------------------------------------ agents' operations
\* Agent.handoff: the agent returned, or the ValueError raised
RECURSIVE FindAgent(_, _)
FindAgent(list, name) ==
  IF list = <<>> THEN <<>>
  ELSE IF Head(list) = name THEN << Head(list) >>
  ELSE FindAgent(Tail(list), name)

\* handoff without the test for the agent's own name
handoffNoSelfCheck(self, list, target_agent_name) ==
  LET f == FindAgent(list, target_agent_name) IN
  IF f # <<>>
  THEN [raised |-> FALSE, agent |-> f[1], msg |-> ""]
  ELSE [raised |-> TRUE, agent |-> self, msg |-> "Handoff not allowed"]

\* handoff returning the first allowed agent whatever the target's name
handoffFirstAllowed(self, list, target_agent_name) ==
  IF target_agent_name = self
  THEN [raised |-> TRUE, agent |-> self, msg |-> "Cannot hand off to self"]
  ELSE IF list # <<>>
  THEN [raised |-> FALSE, agent |-> Head(list), msg |-> ""]
  ELSE [raised |-> TRUE, agent |-> self, msg |-> "Handoff not allowed"]

handoff(self, list, target_agent_name) ==
  IF target_agent_name = self
  THEN [raised |-> TRUE, agent |-> self, msg |-> "Cannot hand off to self"]
  ELSE LET f == FindAgent(list, target_agent_name) IN
       IF f # <<>>
       THEN [raised |-> FALSE, agent |-> f[1], msg |-> ""]
       ELSE [raised |-> TRUE, agent |-> self, msg |-> "Handoff not allowed"]

\* SimpleServer._handle on a call_tool request; handler_ok: the handler returns
NoResponse == [isError |-> FALSE, content |-> "", error |-> ""]
\* _handle answering a name that is not registered as a call without result
SimpleServer_handleNoLookup(agent, name, handler_ok) ==
  IF name \in ServerTools[agent] /\ ~handler_ok
  THEN [isError |-> TRUE, content |-> "", error |-> "handler raised"]
  ELSE [isError |-> FALSE, content |-> IF handler_ok THEN name ELSE "", error |-> ""]
SimpleServer_handle(agent, name, handler_ok) ==
  IF name \notin ServerTools[agent]
  THEN [isError |-> TRUE, content |-> "", error |-> "not found"]
  ELSE IF handler_ok
  THEN [isError |-> FALSE, content |-> name, error |-> ""]
  ELSE [isError |-> TRUE, content |-> "", error |-> "handler raised"]

\* what can happen to a call_tool the server is asked: the handler returns,
\* the handler raises, or the line the client reads is not JSON
ToolOutcomes == {"returns", "handler_raises", "unreadable"}

\* Agent.RunTool: the content returned, or the exception raised
\* (json.loads in SimpleClient._roundtrip, or RuntimeError on isError)
RunTool(agent, tool_name, outcome) ==
  IF outcome = "unreadable"
  THEN [raised |-> TRUE, value |-> "", msg |-> "JSONDecodeError", resp |-> NoResponse]
  ELSE LET resp == SimpleServer_handle(agent, tool_name, outcome = "returns") IN
       IF resp.isError
       THEN [raised |-> TRUE, value |-> "", msg |-> resp.error, resp |-> resp]
       ELSE [raised |-> FALSE, value |-> resp.content, msg |-> "", resp |-> resp]

\* ------------------------------------------------------------------ inputs
\* the items a backend may put in a turn
TcPayloads == {"badjson", "empty", "noname", "log_ticket", "inspect_email"}
HoTargets == {Root, Mail, "Ghost", ""}
Items ==
  {Prose, TermItem} \cup {ToolCallItem(p) : p \in TcPayloads}
                    \cup {HandoffItem(t) : t \in HoTargets}

\* a chunk holds one item, or two markers that arrive together
Chunks ==
  {<<i>> : i \in Items}
    \cup {<<TermItem, ToolCallItem("log_ticket")>>,
          <<ToolCallItem("log_ticket"), HandoffItem(Mail)>>,
          <<ToolCallItem("badjson"), HandoffItem(Mail)>>}

\* a stream is one chunk, or a chunk without a tool-call or hand-off block
\* followed by one more chunk
Streams ==
  {<<c>> : c \in Chunks}
    \cup {<<<<Prose>>, <<Prose>>>>,
          <<<<TermItem>>, <<ToolCallItem("inspect_email")>>>>,
          <<<<TermItem>>, <<HandoffItem(Root)>>>>}

\* ------------------------------------------------------------------ state
VARIABLES
  max_total_steps,         \* parameter of run_agentic_workflow
  max_subagent_steps,      \* parameter of run_agentic_workflow
  active,                  \* name of the active agent
  convo,                   \* the transcript
  total_steps,
  current_subagent_steps,
  assistant_txt,           \* text accumulated by the last generation
  tool_resp,               \* response of the last call_tool
  tool_raised,             \* whether the last tool invocation raised
  pc,                      \* "loop", "after_loop" or "done"
  loop_exit,               \* how the while loop ended: "", "break" or "exhausted"
  saved,                   \* the conversation file: <<>> or <<the list written>>
  writes,                  \* number of writes of the conversation file
  generations,             \* number of calls of Runner.run_streamed
  tool_calls,              \* number of calls of Agent.RunTool
  h_self,                  \* Agent.handoff called directly: the agent's name,
  h_list,                  \*   its handoffs list,
  h_target,                \*   the target name,
  h_called,                \*   whether the call was made,
  h_result,                \*   and what it returned or raised
  ch_agent,                \* the agent whose tool channel is followed
  s_tools,                 \* SimpleServer._tools, in insertion order
  s_pc,                    \* the server: "read", "handle" or "dead"
  s_req,                   \* the request the server is handling
  s_handler,               \* what the handler of the last request did
  s_written,               \* number of responses the server wrote
  stdin_pipe,              \* lines written by the client, not yet read
  stdout_pipe,             \* lines written by the server process, not yet read
  c_pc,                    \* the client: "new", "wait_list", "idle", "wait_call", "failed"
  c_sent,                  \* the requests the client wrote, in order
  c_returned,              \* what each _roundtrip returned or raised, in order
  c_tools,                 \* Agent.tools
  regs,                    \* the names registered so far, in order
  listed,                  \* the last answer to list_tools on the registry
  g_stream,                \* the fragments the generation will yield
  g_pulled,                \* number of fragments the for-loop pulled
  g_pc,                    \* the for-loop: "idle", "pulling", "broke" or "exhausted"
  extracted,               \* what extract_tool_call returned for assistant_txt
  fs_case_sensitive,       \* the filesystem tells "O" from "o" in file names
  files,                   \* the workspace files that exist, by file name
  alive,                   \* the agents not yet finalised by __del__
  ws_ret,                  \* what the last workspace tool returned
  ws_calls,                \* number of workspace tool calls made
  snapshot                 \* workspace text of the Orchestrator's last prompt

vars ==
  <<max_total_steps, max_subagent_steps, active, convo, total_steps,
    current_subagent_steps, assistant_txt, tool_resp, tool_raised, pc,
    loop_exit, saved, writes, generations, tool_calls, h_self, h_list, h_target, h_called,
    h_result, ch_agent, s_tools, s_pc, s_req, s_handler, s_written, stdin_pipe,
    stdout_pipe, c_pc, c_sent, c_returned, c_tools, regs, listed,
    g_stream, g_pulled, g_pc, extracted,
    fs_case_sensitive, files, alive, ws_ret, ws_calls, snapshot>>

gvars == <<g_stream, g_pulled, g_pc, extracted>>

fvars == <<fs_case_sensitive, files, alive, ws_ret, ws_calls, snapshot>>

hvars == <<h_self, h_list, h_target, h_called, h_result>>

chvars ==
  <<ch_agent, s_tools, s_pc, s_req, s_handler, s_written, stdin_pipe, stdout_pipe,
    c_pc, c_sent, c_returned, c_tools, regs, listed>>

wvars ==
  <<max_total_steps, max_subagent_steps, active, convo, total_steps,
    current_subagent_steps, assistant_txt, tool_resp, tool_raised, pc,
    loop_exit, saved, writes, generations, tool_calls>>

\* ------------------------------------------------------------------ tool registry
\* the tools each server file registers, in the order of its decorators
ServerRegistrations ==
  [a \in AgentNames |->
     IF a = Root
     THEN <<"log_ticket", "write_report", "send_sms_alert", "assign_task">>
     ELSE <<"search_emails_by_sender", "inspect_email", "inspect_attachment",
            "block_sender", "report_to_orchestrator">>]

\* a registry entry: the key and the _Tool made from the function
ToolEntry(name, fn) == [name |-> name, fn |-> fn]
ToolNamesOf(tools) == {tools[i].name : i \in 1..Len(tools)}

\* a registration that always adds an entry at the end
SimpleServer_toolAppends(tools, name, fn) == Append(tools, ToolEntry(name, fn))

\* self._tools[fn.__name__] = _Tool(fn): a new key goes to the end of the
\* dict, a key already there keeps its place and gets the new value
SimpleServer_tool(tools, name, fn) ==
  IF name \in ToolNamesOf(tools)
  THEN [i \in 1..Len(tools) |->
          IF tools[i].name = name THEN ToolEntry(name, fn) ELSE tools[i]]
  ELSE Append(tools, ToolEntry(name, fn))

\* the registry after the decorators of a server file ran; a function is
\* named by the position of its decorator
RECURSIVE Registered(_)
Registered(names) ==
  IF names = <<>> THEN <<>>
  ELSE SimpleServer_tool(Registered(SubSeq(names, 1, Len(names) - 1)),
                         names[Len(names)], Len(names))

\* _handle on list_tools: one descriptor per value of the dict, in its order
Descriptor(t) == [name |-> t.name, inputSchema |-> t.fn]
ListToolsResponse(tools) == [i \in 1..Len(tools) |-> Descriptor(tools[i])]

\* ------------------------------------------------------------------ tool channel
\* a "name" that is a JSON array or object: not hashable in the server
UnhashableName == "<json array>"
Hashable(name) == name # UnhashableName

\* the names an agent's turn can make the client send
CallNames == {"log_ticket", "inspect_email", "report_to_orchestrator", UnhashableName}

\* the handlers that call load_emails
LoadsEmails == {"search_emails_by_sender", "inspect_email", "inspect_attachment"}

\* what the handler of a call does: nothing runs for a name that is not
\* registered; a handler returns, raises, or (load_emails without its data
\* file) prints a line on the server's stdout and then returns
HandlerOutcomes(agent, name) ==
  IF name \notin ServerTools[agent] THEN {"none"}
  ELSE {"returns", "raises"}
         \cup (IF name \in LoadsEmails THEN {"prints_returns"} ELSE {})

HandlerReturns(outcome) == outcome \in {"returns", "prints_returns"}

\* request payloads; id is the number of the round trip on the channel
Request(id, type, name) == [id |-> id, type |-> type, name |-> name]
NoRequest == Request(0, "", "")
list_tools(id) == Request(id, "list_tools", "")
\* call_tool asking for the tool list again
call_toolRelists(id, name) == Request(id, "list_tools", "")
call_tool(id, name) == Request(id, "call_tool", name)

\* lines on the server's stdout: a JSON response (to the request numbered
\* `for`), or a line printed by a handler; EofLine is readline() at end of file
JsonLine(id, resp, tools) == [kind |-> "json", for |-> id, resp |-> resp, tools |-> tools]
NoiseLine(id) == [kind |-> "noise", for |-> id, resp |-> NoResponse, tools |-> <<>>]
EofLine == [kind |-> "eof", for |-> 0, resp |-> NoResponse, tools |-> <<>>]

\* what a call of _roundtrip gave its caller
Returned(req, raised, line) == [req |-> req, raised |-> raised, line |-> line]

NotListed == [at |-> -1, tools |-> <<>>]

\* the channel of an agent before the agent is constructed
\* ------------------------------------------------------------------ workspace files
\* a file name as the filesystem compares it when it ignores case
Lower(name) ==
  IF name = "Orchestrator" THEN "orchestrator"
  ELSE IF name = "MailAgent" THEN "mailagent"
  ELSE name

\* os.path.join("workspaces", f"{agent_name}_workspace.txt"), given by the
\* part of the name that varies
WorkspacePath(agent_name) == agent_name

\* the path report_to_orchestrator builds: workspaces/orchestrator_workspace.txt
ReportPath == "orchestrator"

\* the file a path names on the filesystem
FileKey(cs, path) == IF cs THEN path ELSE Lower(path)

\* Workspace._ensure_workspace: the file is overwritten with the default
\* structure holding initial_data
FreshWorkspace(initial_data) == [data |-> << initial_data >>, log |-> <<>>]

\* the files after the two agents were constructed with workspace=True
FilesAfterConstruction(cs) ==
  [k \in {FileKey(cs, WorkspacePath(a)) : a \in AgentNames} |-> FreshWorkspace("{}")]

\* Workspace.get_content: the file's text, "" when there is no file
get_content(fs, cs, agent_name) ==
  IF FileKey(cs, WorkspacePath(agent_name)) \in DOMAIN fs
  THEN fs[FileKey(cs, WorkspacePath(agent_name))].data
  ELSE <<>>

\* what a tool returned: the tool, its text argument and the status
ToolReturn(tool, arg, status) == [tool |-> tool, arg |-> arg, status |-> status]
NoToolReturn == ToolReturn("none", "", "none")

\* texts given to a tool: plain text, text with a backslash escape that
\* re.sub rejects in a replacement (as in "C:\docs"), text with a group
\* reference (a backslash and a digit)
ReportContents == {"plain", "bad_escape", "group_ref"}

\* what re.sub leaves in the data section for a text put in its replacement
Substituted(report_content) ==
  IF report_content = "group_ref" THEN "expanded" ELSE report_content

\* the state of the workspace files outside the workspace specification
WorkspaceStart ==
  /\ fs_case_sensitive = TRUE
  /\ files = FilesAfterConstruction(TRUE)
  /\ alive = AgentNames
  /\ ws_ret = NoToolReturn
  /\ ws_calls = 0
  /\ snapshot = <<>>

ChannelStart(agent) ==
  /\ ch_agent = agent
  /\ s_tools = Registered(ServerRegistrations[agent])
  /\ s_pc = "read"
  /\ s_req = NoRequest
  /\ s_handler = "none"
  /\ s_written = 0
  /\ stdin_pipe = <<>>
  /\ stdout_pipe = <<>>
  /\ c_pc = "new"
  /\ c_sent = <<>>
  /\ c_returned = <<>>
  /\ c_tools = <<>>
  /\ regs = ServerRegistrations[agent]
  /\ listed = NotListed
  /\ g_stream = <<>>
  /\ g_pulled = 0
  /\ g_pc = "idle"
  /\ extracted = <<>>
  /\ WorkspaceStart

\* ------------------------------------------------------------------ transcript entries
Content(fmt, arg, text) == [fmt |-> fmt, arg |-> arg, text |-> text]
Entry(role, content) == [role |-> role, content |-> content]
SystemEntry(fmt, arg) == Entry("system", Content(fmt, arg, <<>>))
AssistantEntry(text) == Entry("assistant", Content("", "", text))
LastEntry(c) == c[Len(c)]

SYSTEM_START_MESSAGE == "SYSTEM_START_MESSAGE"
ORCHESTRATOR_REMINDER == "ORCHESTRATOR_REMINDER"
SUBAGENT_REMINDER == "SUBAGENT_REMINDER"
SUBAGENT_STEP_LIMIT_MESSAGE == "SUBAGENT_STEP_LIMIT_MESSAGE"
MAX_TOTAL_STEPS_MESSAGE == "MAX_TOTAL_STEPS_MESSAGE"

\* ------------------------------------------------------------------ the loop
\* the locals of run_agentic_workflow before the loop
LoopStart ==
  /\ active = Root
  /\ convo = << SystemEntry(SYSTEM_START_MESSAGE, "") >>
  /\ total_steps = 0
  /\ current_subagent_steps = 0
  /\ assistant_txt = <<>>
  /\ tool_resp = NoResponse
  /\ tool_raised = FALSE
  /\ pc = "loop"
  /\ loop_exit = ""
  /\ saved = <<>>
  /\ writes = 0
  /\ generations = 0
  /\ tool_calls = 0

NoHandoffResult == [raised |-> FALSE, agent |-> "", msg |-> ""]

Init ==
  /\ max_total_steps \in 0..MaxTotalSteps
  /\ max_subagent_steps \in 0..MaxSubagentSteps
  /\ LoopStart
  /\ h_self = Root
  /\ h_list = handoffs[Root]
  /\ h_target = ""
  /\ h_called = FALSE
  /\ h_result = NoHandoffResult
  /\ ChannelStart(Root)

\* the while test, letting one more iteration in
LoopCondOffByOne == total_steps <= max_total_steps

\* the while test
LoopCond == total_steps < max_total_steps

\* current_subagent_steps after the update at the top of the iteration
SubagentSteps ==
  IF active # Root THEN current_subagent_steps + 1 ELSE 0

\* the limit test, one step late
SubagentExceededLate(sub) == sub > max_subagent_steps + 1

\* the test of the sub-agent step limit
SubagentExceeded(sub) == sub > max_subagent_steps

\* the circuit breaker leaving the sub-agent active
CircuitBreakerKeepsAgent ==
  /\ convo' = Append(convo, SystemEntry(SUBAGENT_STEP_LIMIT_MESSAGE, ""))
  /\ active' = active
  /\ current_subagent_steps' = 0
  /\ UNCHANGED <<assistant_txt, tool_resp, tool_raised, pc, loop_exit, generations, tool_calls>>

\* the circuit breaker: notice, back to the root, continue
CircuitBreaker ==
  /\ convo' = Append(convo, SystemEntry(SUBAGENT_STEP_LIMIT_MESSAGE, ""))
  /\ active' = Root
  /\ current_subagent_steps' = 0
  /\ UNCHANGED <<assistant_txt, tool_resp, tool_raised, pc, loop_exit, generations, tool_calls>>

\* root text with the termination marker: break
TerminateBranch(c1, sub) ==
  /\ convo' = c1
  /\ pc' = "after_loop"
  /\ loop_exit' = "break"
  /\ current_subagent_steps' = sub
  /\ UNCHANGED <<active, tool_resp, tool_raised, tool_calls>>

\* the tool branch without its `except Exception`: a failure leaves the loop
ToolBranchUncaught(c1, sub, tc, outcome) ==
  /\ IF "name" \notin tc.keys
     THEN /\ convo' = c1
          /\ tool_raised' = TRUE
          /\ pc' = "raised"
          /\ UNCHANGED <<tool_resp, tool_calls>>
     ELSE LET r == RunTool(active, tc.name, outcome) IN
          /\ tool_calls' = tool_calls + 1
          /\ tool_resp' = IF outcome = "unreadable" THEN tool_resp ELSE r.resp
          /\ tool_raised' = r.raised
          /\ pc' = IF r.raised THEN "raised" ELSE pc
          /\ convo' =
               IF r.raised
               THEN c1
               ELSE Append(c1, SystemEntry("tool_result", r.value))
  /\ current_subagent_steps' = sub
  /\ UNCHANGED <<active, loop_exit>>

\* the tool branch appending the result to the transcript as it was before
\* the assistant entry
ToolBranchDropsAssistant(c1, sub, tc, outcome) ==
  /\ IF "name" \notin tc.keys
     THEN /\ convo' = Append(c1, SystemEntry("Tool error", "KeyError"))
          /\ tool_raised' = TRUE
          /\ UNCHANGED <<tool_resp, tool_calls>>
     ELSE LET r == RunTool(active, tc.name, outcome) IN
          /\ tool_calls' = tool_calls + 1
          /\ tool_resp' = IF outcome = "unreadable" THEN tool_resp ELSE r.resp
          /\ tool_raised' = r.raised
          /\ convo' =
               IF r.raised
               THEN Append(c1, SystemEntry("Tool error", r.msg))
               ELSE Append(convo, SystemEntry("tool_result", r.value))
  /\ current_subagent_steps' = sub
  /\ UNCHANGED <<active, pc, loop_exit>>

\* `if tc:` try RunTool, append the result or the error, continue
ToolBranch(c1, sub, tc, outcome) ==
  /\ IF "name" \notin tc.keys
     THEN \* tc["name"] raises KeyError inside the try
          /\ convo' = Append(c1, SystemEntry("Tool error", "KeyError"))
          /\ tool_raised' = TRUE
          /\ UNCHANGED <<tool_resp, tool_calls>>
     ELSE LET r == RunTool(active, tc.name, outcome) IN
          /\ tool_calls' = tool_calls + 1
          /\ tool_resp' = IF outcome = "unreadable" THEN tool_resp ELSE r.resp
          /\ tool_raised' = r.raised
          /\ convo' =
               IF r.raised
               THEN Append(c1, SystemEntry("Tool error", r.msg))
               ELSE Append(c1, SystemEntry("tool_result", r.value))
  /\ current_subagent_steps' = sub
  /\ UNCHANGED <<active, pc, loop_exit>>

\* the hand-off branch swallowing the ValueError
HandoffBranchSilent(c1, sub, target) ==
  LET r == handoff(active, handoffs[active], target) IN
  /\ convo' = c1
  /\ active' = IF r.raised THEN active ELSE r.agent
  /\ current_subagent_steps' = IF ~r.raised /\ r.agent = Root THEN 0 ELSE sub
  /\ UNCHANGED <<tool_resp, tool_raised, pc, loop_exit, tool_calls>>

\* `if target:` try active.handoff(target)
HandoffBranch(c1, sub, target) ==
  LET r == handoff(active, handoffs[active], target) IN
  /\ IF r.raised
     THEN /\ convo' = Append(c1, SystemEntry("Handoff failed", r.msg))
          /\ active' = active
          /\ current_subagent_steps' = sub
     ELSE /\ convo' = c1
          /\ active' = r.agent
          /\ current_subagent_steps' = IF r.agent = Root THEN 0 ELSE sub
  /\ UNCHANGED <<tool_resp, tool_raised, pc, loop_exit, tool_calls>>

\* the reminder put in front of the turn it answers
ReminderBranchInserts(c1, sub, tc, target, terminate_detected) ==
  /\ convo' =
       Append(Append(convo, SystemEntry(IF active = Root THEN ORCHESTRATOR_REMINDER
                                                          ELSE SUBAGENT_REMINDER, "")),
              LastEntry(c1))
  /\ current_subagent_steps' = sub
  /\ UNCHANGED <<active, tool_resp, tool_raised, pc, loop_exit, tool_calls>>

\* the root's reminder whatever the active agent's role
ReminderBranchOneText(c1, sub, tc, target, terminate_detected) ==
  /\ convo' = Append(c1, SystemEntry(ORCHESTRATOR_REMINDER, ""))
  /\ current_subagent_steps' = sub
  /\ UNCHANGED <<active, tool_resp, tool_raised, pc, loop_exit, tool_calls>>

\* no action found: the reminder of the active agent's role
ReminderBranch(c1, sub, tc, target, terminate_detected) ==
  /\ convo' =
       IF active = Root
       THEN IF ~(TruthyTc(tc) \/ TruthyTarget(target) \/ terminate_detected)
            THEN Append(c1, SystemEntry(ORCHESTRATOR_REMINDER, ""))
            ELSE c1
       ELSE IF ~(TruthyTc(tc) \/ TruthyTarget(target))
            THEN Append(c1, SystemEntry(SUBAGENT_REMINDER, ""))
            ELSE c1
  /\ current_subagent_steps' = sub
  /\ UNCHANGED <<active, tool_resp, tool_raised, pc, loop_exit, tool_calls>>

\* the flag set when the stream loop breaks on the root's termination marker
TerminateDetected(text, isRoot) ==
  isRoot /\ HasKind(text, "term") /\ ~HasKind(text, "tc")

\* the termination test without the test of the agent's name
ShouldTerminateAnyAgent(isRoot, text) == detect_terminate(text)

\* the termination test: the root only
ShouldTerminate(isRoot, text) == isRoot /\ detect_terminate(text)

\* the texts the stream loop can leave in assistant_txt, for the root and for
\* a sub-agent
RootTexts == {ConsumeStream(stream, TRUE) : stream \in Streams}
SubagentTexts == {ConsumeStream(stream, FALSE) : stream \in Streams}

\* the turn with the hand-off check moved in front of the tool check
GenerateTurnHandoffFirst(sub, txt) ==
  LET isRoot == active = Root
      c1 == Append(convo, AssistantEntry(txt))
      tc == extract_tool_call(txt)
      target == detect_handoff(txt)
  IN  /\ generations' = generations + 1
      /\ assistant_txt' = txt
      /\ IF ShouldTerminate(isRoot, txt)
         THEN TerminateBranch(c1, sub)
         ELSE IF TruthyTarget(target)
         THEN HandoffBranch(c1, sub, target[1])
         ELSE IF TruthyTc(tc)
         THEN \E outcome \in ToolOutcomes : ToolBranch(c1, sub, tc[1], outcome)
         ELSE ReminderBranch(c1, sub, tc, target, TerminateDetected(txt, isRoot))

\* generate one turn of the active agent and act on it
GenerateTurn(sub, txt) ==
  LET isRoot == active = Root
      c1 == Append(convo, AssistantEntry(txt))
      tc == extract_tool_call(txt)
      target == detect_handoff(txt)
  IN  /\ generations' = generations + 1
      /\ assistant_txt' = txt
      /\ IF ShouldTerminate(isRoot, txt)
         THEN TerminateBranch(c1, sub)
         ELSE IF TruthyTc(tc)
         THEN \E outcome \in ToolOutcomes : ToolBranch(c1, sub, tc[1], outcome)
         ELSE IF TruthyTarget(target)
         THEN HandoffBranch(c1, sub, target[1])
         ELSE ReminderBranch(c1, sub, tc, target, TerminateDetected(txt, isRoot))

\* the counter left as it was
StepCountSkipped == total_steps

\* total_steps += 1 at the top of the iteration
StepCount == total_steps + 1

\* one iteration of the while loop
LoopIteration ==
  /\ pc = "loop"
  /\ LoopCond
  /\ total_steps' = StepCount
  /\ IF SubagentExceeded(SubagentSteps)
     THEN CircuitBreaker
     ELSE \E txt \in (IF active = Root THEN RootTexts ELSE SubagentTexts) :
            GenerateTurn(SubagentSteps, txt)
  /\ UNCHANGED <<max_total_steps, max_subagent_steps, saved, writes>>
  /\ UNCHANGED hvars
  /\ UNCHANGED chvars
  /\ UNCHANGED gvars
  /\ UNCHANGED fvars

\* the while test fails
LoopExhausted ==
  /\ pc = "loop"
  /\ ~LoopCond
  /\ pc' = "after_loop"
  /\ loop_exit' = "exhausted"
  /\ UNCHANGED <<max_total_steps, max_subagent_steps, active, convo, total_steps,
                 current_subagent_steps, assistant_txt, tool_resp, tool_raised,
                 saved, writes, generations, tool_calls>>
  /\ UNCHANGED hvars
  /\ UNCHANGED chvars
  /\ UNCHANGED gvars
  /\ UNCHANGED fvars

\* the test after the loop, missing the run that used its whole budget
EndedByMaxStepsStrict == total_steps > max_total_steps

\* the test after the loop
EndedByMaxSteps == total_steps >= max_total_steps

\* the end of the run writing the conversation file before the notice
FinishSavesFirst ==
  /\ pc = "after_loop"
  /\ convo' =
       IF EndedByMaxSteps
       THEN Append(convo, SystemEntry(MAX_TOTAL_STEPS_MESSAGE, ""))
       ELSE convo
  /\ saved' = << convo >>
  /\ writes' = writes + 1
  /\ pc' = "done"
  /\ UNCHANGED <<max_total_steps, max_subagent_steps, active, total_steps,
                 current_subagent_steps, assistant_txt, tool_resp, tool_raised,
                 loop_exit, generations, tool_calls>>
  /\ UNCHANGED hvars
  /\ UNCHANGED chvars
  /\ UNCHANGED gvars
  /\ UNCHANGED fvars

\* after the loop: the forced-termination notice, then the conversation file
Finish ==
  /\ pc = "after_loop"
  /\ convo' =
       IF EndedByMaxSteps
       THEN Append(convo, SystemEntry(MAX_TOTAL_STEPS_MESSAGE, ""))
       ELSE convo
  /\ saved' = << convo' >>
  /\ writes' = writes + 1
  /\ pc' = "done"
  /\ UNCHANGED <<max_total_steps, max_subagent_steps, active, total_steps,
                 current_subagent_steps, assistant_txt, tool_resp, tool_raised,
                 loop_exit, generations, tool_calls>>
  /\ UNCHANGED hvars
  /\ UNCHANGED chvars
  /\ UNCHANGED gvars
  /\ UNCHANGED fvars

\* an iteration in which Runner.run_streamed or the stream raises: nothing in
\* the loop catches it and it leaves run_agentic_workflow
GenerationRaises ==
  /\ pc = "loop"
  /\ LoopCond
  /\ ~SubagentExceeded(SubagentSteps)
  /\ total_steps' = StepCount
  /\ current_subagent_steps' = SubagentSteps
  /\ generations' = generations + 1
  /\ pc' = "raised"
  /\ UNCHANGED <<max_total_steps, max_subagent_steps, active, convo, assistant_txt,
                 tool_resp, tool_raised, loop_exit, saved, writes, tool_calls>>
  /\ UNCHANGED hvars
  /\ UNCHANGED chvars
  /\ UNCHANGED gvars
  /\ UNCHANGED fvars

\* the steps of a run whose generations return
NextReturning == LoopIteration \/ LoopExhausted \/ Finish

Next == NextReturning \/ GenerationRaises

Spec == Init /\ [][Next]_vars

\* every generation and every tool call returns, so the loop keeps running
FairSpec == Init /\ [][NextReturning]_vars /\ WF_vars(NextReturning)

\* ------------------------------------------------------------------ Agent.handoff alone
\* any agent name, any handoffs list (also one that names the agent itself)
\* and any target
HandoffNames == AgentNames \cup {"Ghost"}

RECURSIVE ListsUpTo(_)
ListsUpTo(n) ==
  IF n = 0 THEN {<<>>}
  ELSE LET shorter == ListsUpTo(n - 1) IN
       shorter \cup {Append(l, a) : l \in shorter, a \in HandoffNames}

InitHandoff ==
  /\ max_total_steps = 0
  /\ max_subagent_steps = 0
  /\ LoopStart
  /\ h_self \in HandoffNames
  /\ h_list \in ListsUpTo(MaxHandoffs)
  /\ h_target \in HandoffNames \cup {""}
  /\ h_called = FALSE
  /\ h_result = NoHandoffResult
  /\ ChannelStart(Root)

CallHandoff ==
  /\ ~h_called
  /\ h_called' = TRUE
  /\ h_result' = handoff(h_self, h_list, h_target)
  /\ UNCHANGED <<h_self, h_list, h_target>>
  /\ UNCHANGED <<max_total_steps, max_subagent_steps, active, convo, total_steps,
                 current_subagent_steps, assistant_txt, tool_resp, tool_raised,
                 pc, loop_exit, saved, writes, generations, tool_calls>>
  /\ UNCHANGED chvars
  /\ UNCHANGED gvars
  /\ UNCHANGED fvars

NextHandoff == CallHandoff

SpecHandoff == InitHandoff /\ [][NextHandoff]_vars

\* ------------------------------------------------------------------ one tool channel
\* the workflow and the direct hand-off call at rest
WorkflowIdle ==
  /\ max_total_steps = 0
  /\ max_subagent_steps = 0
  /\ LoopStart
  /\ h_self = Root
  /\ h_list = handoffs[Root]
  /\ h_target = ""
  /\ h_called = FALSE
  /\ h_result = NoHandoffResult

InitChannel ==
  /\ WorkflowIdle
  /\ \E a \in AgentNames : ChannelStart(a)

\* SimpleClient._roundtrip, first half: write the request line and flush.
\* With the server process gone the write raises and nothing is sent.
ClientWrite(req, waiting) ==
  IF s_pc = "dead"
  THEN /\ c_returned' = Append(c_returned, Returned(req, "BrokenPipeError", EofLine))
       /\ UNCHANGED <<stdin_pipe, c_sent, c_pc>>
  ELSE /\ stdin_pipe' = Append(stdin_pipe, req)
       /\ c_sent' = Append(c_sent, req)
       /\ c_pc' = waiting
       /\ UNCHANGED c_returned

\* Agent.__init__: the server process is started and list_tools is sent
AgentInit ==
  /\ c_pc = "new"
  /\ ClientWrite(list_tools(Len(c_returned) + 1), "wait_list")
  /\ UNCHANGED <<ch_agent, s_tools, s_pc, s_req, s_handler, s_written, stdout_pipe,
                 c_tools, regs, listed>>
  /\ UNCHANGED <<wvars, hvars, gvars, fvars>>

\* Agent.RunTool -> SimpleClient.call_tool: the request is sent
AgentRunTool(name) ==
  /\ c_pc = "idle"
  /\ Len(c_returned) < 1 + MaxCalls
  /\ ClientWrite(call_tool(Len(c_returned) + 1, name), "wait_call")
  /\ UNCHANGED <<ch_agent, s_tools, s_pc, s_req, s_handler, s_written, stdout_pipe,
                 c_tools, regs, listed>>
  /\ UNCHANGED <<wvars, hvars, gvars, fvars>>

\* SimpleClient._roundtrip, second half: json.loads(stdout.readline()).
\* readline gives the next line of the pipe, or "" once the server is gone.
ClientRead ==
  /\ c_pc \in {"wait_list", "wait_call"}
  /\ stdout_pipe # <<>> \/ s_pc = "dead"
  /\ LET line == IF stdout_pipe # <<>> THEN Head(stdout_pipe) ELSE EofLine
         req == c_sent[Len(c_sent)]
         raised == IF line.kind = "json" THEN "" ELSE "JSONDecodeError"
     IN  /\ stdout_pipe' = IF stdout_pipe # <<>> THEN Tail(stdout_pipe) ELSE <<>>
         /\ c_returned' = Append(c_returned, Returned(req, raised, line))
         /\ IF c_pc = "wait_list"
            THEN IF raised = ""
                 THEN c_pc' = "idle" /\ c_tools' = line.tools
                 ELSE c_pc' = "failed" /\ c_tools' = c_tools
            ELSE c_pc' = "idle" /\ c_tools' = c_tools
  /\ UNCHANGED <<ch_agent, s_tools, s_pc, s_req, s_handler, s_written, stdin_pipe,
                 c_sent, regs, listed>>
  /\ UNCHANGED <<wvars, hvars, gvars, fvars>>

\* SimpleServer.run: the next line of stdin
ServerRead ==
  /\ s_pc = "read"
  /\ stdin_pipe # <<>>
  /\ s_req' = Head(stdin_pipe)
  /\ stdin_pipe' = Tail(stdin_pipe)
  /\ s_pc' = "handle"
  /\ UNCHANGED <<ch_agent, s_tools, s_handler, s_written, stdout_pipe, c_pc, c_sent,
                 c_returned, c_tools, regs, listed>>
  /\ UNCHANGED <<wvars, hvars, gvars, fvars>>

\* SimpleServer.run: _handle(request), then the response line and flush.
\* What a handler printed is in the stdout buffer before the response.
ServerRespond ==
  /\ s_pc = "handle"
  /\ IF s_req.type = "list_tools"
     THEN /\ stdout_pipe' =
               Append(stdout_pipe, JsonLine(s_req.id, NoResponse, ListToolsResponse(s_tools)))
          /\ s_pc' = "read"
          /\ s_handler' = "none"
          /\ s_written' = s_written + 1
     ELSE IF ~Hashable(s_req.name)
     THEN \* self._tools.get(name) raises TypeError outside the try
          /\ s_pc' = "dead"
          /\ s_handler' = "none"
          /\ UNCHANGED <<stdout_pipe, s_written>>
     ELSE \E outcome \in HandlerOutcomes(ch_agent, s_req.name) :
            LET resp == SimpleServer_handle(ch_agent, s_req.name, HandlerReturns(outcome))
                line == JsonLine(s_req.id, resp, <<>>)
            IN  /\ stdout_pipe' =
                     IF outcome = "prints_returns"
                     THEN stdout_pipe \o << NoiseLine(s_req.id), line >>
                     ELSE Append(stdout_pipe, line)
                /\ s_pc' = "read"
                /\ s_handler' = outcome
                /\ s_written' = s_written + 1
  /\ UNCHANGED <<ch_agent, s_tools, s_req, stdin_pipe, c_pc, c_sent, c_returned,
                 c_tools, regs, listed>>
  /\ UNCHANGED <<wvars, hvars, gvars, fvars>>

NextChannel ==
  \/ AgentInit
  \/ \E name \in CallNames : AgentRunTool(name)
  \/ ClientRead
  \/ ServerRead
  \/ ServerRespond

SpecChannel == InitChannel /\ [][NextChannel]_vars

\* ------------------------------------------------------------------ the registry alone
\* the names of the functions a server file may decorate
RegNames == {"log_ticket", "write_report", "assign_task"}

InitRegistry ==
  /\ WorkflowIdle
  /\ ch_agent = Root
  /\ s_tools = <<>>
  /\ s_pc = "read"
  /\ s_req = NoRequest
  /\ s_handler = "none"
  /\ s_written = 0
  /\ stdin_pipe = <<>>
  /\ stdout_pipe = <<>>
  /\ c_pc = "new"
  /\ c_sent = <<>>
  /\ c_returned = <<>>
  /\ c_tools = <<>>
  /\ regs = <<>>
  /\ listed = NotListed
  /\ g_stream = <<>>
  /\ g_pulled = 0
  /\ g_pc = "idle"
  /\ extracted = <<>>
  /\ WorkspaceStart

\* @srv.tool() on one more function
RegisterTool ==
  /\ Len(regs) < MaxRegs
  /\ \E name \in RegNames :
       /\ regs' = Append(regs, name)
       /\ s_tools' = SimpleServer_tool(s_tools, name, Len(regs) + 1)
  /\ UNCHANGED <<ch_agent, s_pc, s_req, s_handler, s_written, stdin_pipe, stdout_pipe,
                 c_pc, c_sent, c_returned, c_tools, listed>>
  /\ UNCHANGED <<wvars, hvars, gvars, fvars>>

\* _handle({"type": "list_tools"}) on the registry as it is
HandleListTools ==
  /\ listed' = [at |-> Len(regs), tools |-> ListToolsResponse(s_tools)]
  /\ UNCHANGED <<ch_agent, s_tools, s_pc, s_req, s_handler, s_written, stdin_pipe,
                 stdout_pipe, c_pc, c_sent, c_returned, c_tools, regs>>
  /\ UNCHANGED <<wvars, hvars, gvars, fvars>>

NextRegistry == RegisterTool \/ HandleListTools

SpecRegistry == InitRegistry /\ [][NextRegistry]_vars

\* ------------------------------------------------------------------ the stream loop alone
\* fragments of one item each, and the generations of up to MaxFragments of them
Fragments ==
  {<< i >> : i \in {Prose, TermItem, ToolCallItem("log_ticket"), HandoffItem(Mail),
                    TcEnd, HoEnd}}

RECURSIVE StreamsUpTo(_)
StreamsUpTo(n) ==
  IF n = 0 THEN {<<>>}
  ELSE LET shorter == StreamsUpTo(n - 1) IN
       shorter \cup {Append(st, f) : st \in shorter, f \in Fragments}

\* an iteration that has called Runner.run_streamed and reset assistant_txt
InitStream ==
  /\ max_total_steps = 1
  /\ max_subagent_steps = 1
  /\ active \in AgentNames
  /\ convo = << SystemEntry(SYSTEM_START_MESSAGE, "") >>
  /\ total_steps = 1
  /\ current_subagent_steps = 0
  /\ assistant_txt = <<>>
  /\ tool_resp = NoResponse
  /\ tool_raised = FALSE
  /\ pc = "loop"
  /\ loop_exit = ""
  /\ saved = <<>>
  /\ writes = 0
  /\ generations = 1
  /\ tool_calls = 0
  /\ h_self = Root
  /\ h_list = handoffs[Root]
  /\ h_target = ""
  /\ h_called = FALSE
  /\ h_result = NoHandoffResult
  /\ ch_agent = Root
  /\ s_tools = <<>>
  /\ s_pc = "read"
  /\ s_req = NoRequest
  /\ s_handler = "none"
  /\ s_written = 0
  /\ stdin_pipe = <<>>
  /\ stdout_pipe = <<>>
  /\ c_pc = "new"
  /\ c_sent = <<>>
  /\ c_returned = <<>>
  /\ c_tools = <<>>
  /\ regs = <<>>
  /\ listed = NotListed
  /\ g_stream \in StreamsUpTo(MaxFragments)
  /\ g_pulled = 0
  /\ g_pc = "pulling"
  /\ extracted = <<>>
  /\ WorkspaceStart

\* one pass of `for token_chunk in stream`: the fragment is added to
\* assistant_txt, then the break tests
PullFragment ==
  /\ g_pc = "pulling"
  /\ g_pulled < Len(g_stream)
  /\ g_pulled' = g_pulled + 1
  /\ assistant_txt' = assistant_txt \o g_stream[g_pulled + 1]
  /\ g_pc' = IF BreakStream(assistant_txt', active = Root) THEN "broke" ELSE "pulling"
  /\ UNCHANGED <<max_total_steps, max_subagent_steps, active, convo, total_steps,
                 current_subagent_steps, tool_resp, tool_raised, pc, loop_exit,
                 saved, writes, generations, tool_calls, g_stream, extracted>>
  /\ UNCHANGED fvars
  /\ UNCHANGED <<hvars, chvars>>

\* the generator is exhausted: the for-loop ends
StreamExhausted ==
  /\ g_pc = "pulling"
  /\ g_pulled = Len(g_stream)
  /\ g_pc' = "exhausted"
  /\ UNCHANGED <<wvars, hvars, chvars, g_stream, g_pulled, extracted, fvars>>

NextStream == PullFragment \/ StreamExhausted

SpecStream == InitStream /\ [][NextStream]_vars

\* ------------------------------------------------------------------ extract_tool_call
\* the parts of a generated text: prose, a hand-off marker, and tool-call
\* blocks whose payload does not begin with a brace, begins with one and is
\* not JSON, or is a JSON object
Blocks ==
  {Prose, HandoffItem(Mail)}
    \cup {ToolCallItem(p) : p \in NonCallPayloads \cup {"log_ticket", "inspect_email"}}

RECURSIVE TextsUpTo(_)
TextsUpTo(n) ==
  IF n = 0 THEN {<<>>}
  ELSE LET shorter == TextsUpTo(n - 1) IN
       shorter \cup {Append(t, b) : t \in shorter, b \in Blocks}

\* a turn has been generated and appended; the tool check is next
InitExtract ==
  /\ max_total_steps = 1
  /\ max_subagent_steps = 1
  /\ active = Root
  /\ convo = << SystemEntry(SYSTEM_START_MESSAGE, "") >>
  /\ total_steps = 1
  /\ current_subagent_steps = 0
  /\ assistant_txt \in TextsUpTo(MaxBlocks)
  /\ tool_resp = NoResponse
  /\ tool_raised = FALSE
  /\ pc = "loop"
  /\ loop_exit = ""
  /\ saved = <<>>
  /\ writes = 0
  /\ generations = 1
  /\ tool_calls = 0
  /\ h_self = Root
  /\ h_list = handoffs[Root]
  /\ h_target = ""
  /\ h_called = FALSE
  /\ h_result = NoHandoffResult
  /\ ch_agent = Root
  /\ s_tools = <<>>
  /\ s_pc = "read"
  /\ s_req = NoRequest
  /\ s_handler = "none"
  /\ s_written = 0
  /\ stdin_pipe = <<>>
  /\ stdout_pipe = <<>>
  /\ c_pc = "new"
  /\ c_sent = <<>>
  /\ c_returned = <<>>
  /\ c_tools = <<>>
  /\ regs = <<>>
  /\ listed = NotListed
  /\ g_stream = <<>>
  /\ g_pulled = 0
  /\ g_pc = "generated"
  /\ extracted = <<>>
  /\ WorkspaceStart

\* `tc = extract_tool_call(assistant_txt)`
ExtractToolCall ==
  /\ g_pc = "generated"
  /\ extracted' = extract_tool_call(assistant_txt)
  /\ g_pc' = "extracted"
  /\ UNCHANGED <<wvars, hvars, chvars, g_stream, g_pulled, fvars>>

NextExtract == ExtractToolCall

SpecExtract == InitExtract /\ [][NextExtract]_vars

\* ------------------------------------------------------------------ workspace tools
\* the agents are constructed, each with its workspace file, on a
\* filesystem that compares file names with or without case
InitWorkspace ==
  /\ max_total_steps = 1
  /\ max_subagent_steps = 1
  /\ active = Root
  /\ convo = << SystemEntry(SYSTEM_START_MESSAGE, "") >>
  /\ total_steps = 1
  /\ current_subagent_steps = 0
  /\ assistant_txt = <<>>
  /\ tool_resp = NoResponse
  /\ tool_raised = FALSE
  /\ pc = "loop"
  /\ loop_exit = ""
  /\ saved = <<>>
  /\ writes = 0
  /\ generations = 1
  /\ tool_calls = 0
  /\ h_self = Root
  /\ h_list = handoffs[Root]
  /\ h_target = ""
  /\ h_called = FALSE
  /\ h_result = NoHandoffResult
  /\ ch_agent = Root
  /\ s_tools = <<>>
  /\ s_pc = "read"
  /\ s_req = NoRequest
  /\ s_handler = "none"
  /\ s_written = 0
  /\ stdin_pipe = <<>>
  /\ stdout_pipe = <<>>
  /\ c_pc = "new"
  /\ c_sent = <<>>
  /\ c_returned = <<>>
  /\ c_tools = <<>>
  /\ regs = <<>>
  /\ listed = NotListed
  /\ g_stream = <<>>
  /\ g_pulled = 0
  /\ g_pc = "idle"
  /\ extracted = <<>>
  /\ fs_case_sensitive \in BOOLEAN
  /\ files = FilesAfterConstruction(fs_case_sensitive)
  /\ alive = AgentNames
  /\ ws_ret = NoToolReturn
  /\ ws_calls = 0
  /\ snapshot = <<>>

\* mail_server.report_to_orchestrator, called through the MailAgent's server
ReportToOrchestrator(report_content) ==
  /\ Mail \in alive
  /\ ws_calls < MaxWorkspaceCalls
  /\ ws_calls' = ws_calls + 1
  /\ LET k == FileKey(fs_case_sensitive, ReportPath) IN
     IF k \notin DOMAIN files
     THEN \* "Orchestrator workspace not found"
          /\ ws_ret' = ToolReturn("report_to_orchestrator", report_content, "error")
          /\ files' = files
     ELSE IF report_content = "bad_escape"
     THEN \* re.sub raises re.error, caught by `except Exception`
          /\ ws_ret' = ToolReturn("report_to_orchestrator", report_content, "error")
          /\ files' = files
     ELSE /\ ws_ret' = ToolReturn("report_to_orchestrator", report_content, "success")
          /\ files' = [files EXCEPT ![k] =
                         [data |-> Append(@.data, Substituted(report_content)),
                          log |-> Append(@.log, "report_received")]]
  /\ UNCHANGED <<fs_case_sensitive, alive, snapshot>>
  /\ UNCHANGED <<wvars, hvars, chvars, gvars>>

\* orchestrator_server.assign_task, called through the Orchestrator's server:
\* the data section of the named agent's workspace is replaced by the task
AssignTask(agent_name, task) ==
  /\ Root \in alive
  /\ ws_calls < MaxWorkspaceCalls
  /\ ws_calls' = ws_calls + 1
  /\ LET k == FileKey(fs_case_sensitive, WorkspacePath(agent_name)) IN
     IF k \notin DOMAIN files \/ task = "bad_escape"
     THEN /\ ws_ret' = ToolReturn("assign_task", task, "error")
          /\ files' = files
     ELSE /\ ws_ret' = ToolReturn("assign_task", task, "success")
          /\ files' = [files EXCEPT ![k] =
                         [data |-> << Substituted(task) >>,
                          log |-> Append(@.log, "task_assigned")]]
  /\ UNCHANGED <<fs_case_sensitive, alive, snapshot>>
  /\ UNCHANGED <<wvars, hvars, chvars, gvars>>

\* Agent._build_system_prompt of the Orchestrator, for its next generation
BuildSystemPrompt ==
  /\ Root \in alive
  /\ snapshot' = get_content(files, fs_case_sensitive, Root)
  /\ UNCHANGED <<fs_case_sensitive, files, alive, ws_ret, ws_calls>>
  /\ UNCHANGED <<wvars, hvars, chvars, gvars>>

\* Agent.__del__: the workspace file is removed, errors are ignored
AgentDel(agent_name) ==
  /\ agent_name \in alive
  /\ alive' = alive \ {agent_name}
  /\ LET k == FileKey(fs_case_sensitive, WorkspacePath(agent_name)) IN
     files' = [f \in DOMAIN files \ {k} |-> files[f]]
  /\ UNCHANGED <<fs_case_sensitive, ws_ret, ws_calls, snapshot>>
  /\ UNCHANGED <<wvars, hvars, chvars, gvars>>

NextWorkspace ==
  \/ \E report_content \in ReportContents : ReportToOrchestrator(report_content)
  \/ \E agent_name \in AgentNames \cup {ReportPath}, task \in ReportContents :
       AssignTask(agent_name, task)
  \/ BuildSystemPrompt
  \/ \E agent_name \in AgentNames : AgentDel(agent_name)

SpecWorkspace == InitWorkspace /\ [][NextWorkspace]_vars

\* ------------------------------------------------------------------ properties
HasEntry(c, fmt) == \E i \in 1..Len(c) : c[i].content.fmt = fmt
\* this step generated a turn: the generation returned and the transcript grew
Generated == generations' = generations + 1 /\ convo' # convo

\* C1: the step counter never exceeds the step budget, in every reachable
\* state and at loop exit, for every budget >= 0.
C1_StepBudget == total_steps <= max_total_steps

C1_Witness ==
  /\ pc = "after_loop"
  /\ loop_exit = "exhausted"
  /\ max_total_steps = MaxTotalSteps
  /\ total_steps = max_total_steps

\* C2: every run whose generations and tool calls return ends (the loop is
\* left and the transcript written), every iteration uses up one unit of the
\* budget so that at most max_total_steps generations and tool calls are
\* made, and once the loop is left no generation or tool call is made.
C2_Terminates ==
  /\ <>(pc = "done")
  /\ [][/\ generations' <= max_total_steps
        /\ tool_calls' <= max_total_steps
        /\ (pc = "loop" /\ pc' = "loop" => total_steps' = total_steps + 1)
        /\ (pc # "loop" => generations' = generations /\ tool_calls' = tool_calls)
       ]_vars

C2_Witness ==
  /\ pc = "done"
  /\ loop_exit = "exhausted"
  /\ total_steps = MaxTotalSteps
  /\ HasEntry(convo, "Tool error")
  /\ HasEntry(convo, "Handoff failed")
  /\ HasEntry(convo, ORCHESTRATOR_REMINDER)

\* C3: the loop is left by the break only in a step where the root is active
\* and the text it generated holds the termination marker; a step in which a
\* non-root agent generates a text with the termination marker stays in the
\* loop and goes on as a tool call, a hand-off or the sub-agent reminder.
C3_OnlyRootTerminates ==
  [][/\ (loop_exit' = "break" /\ loop_exit # "break")
          => /\ active = Root
             /\ Generated
             /\ detect_terminate(assistant_txt')
     /\ (pc = "loop" /\ active # Root /\ Generated /\ detect_terminate(assistant_txt'))
          => /\ pc' = "loop"
             /\ loop_exit' = ""
             /\ \/ LastEntry(convo').content.fmt
                     \in {"tool_result", "Tool error", "Handoff failed", SUBAGENT_REMINDER}
                \/ /\ LastEntry(convo') = AssistantEntry(assistant_txt')
                   /\ active' # active
    ]_vars

C3_Witness ==
  /\ pc = "loop"
  /\ active = Mail
  /\ Len(convo) >= 2
  /\ convo[Len(convo) - 1] = AssistantEntry(<<TermItem>>)
  /\ LastEntry(convo) = SystemEntry(SUBAGENT_REMINDER, "")

\* C4 (as claimed): the forced-termination notice is in the transcript only
\* when the loop ended because the step budget ran out, never in a run the
\* root ended with the termination marker.
C4_NoticeOnlyWhenExhausted ==
  HasEntry(convo, MAX_TOTAL_STEPS_MESSAGE) => loop_exit = "exhausted"

\* the step is a generating step that reaches the named check
ReachesToolCheck(agent, text) == ~(agent = Root /\ detect_terminate(text))
ReachesHandoffCheck(agent, text) ==
  ReachesToolCheck(agent, text) /\ ~TruthyTc(extract_tool_call(text))

\* C5: when a non-root agent generates a turn the consecutive counter, once
\* increased for the turn, is in 1..max_subagent_steps; when the root
\* generates it is 0; the counter never leaves 0..max_subagent_steps.
C5_SubagentStepsBounded ==
  [][/\ (Generated /\ active # Root)
          => /\ current_subagent_steps + 1 \in 1..max_subagent_steps
             /\ current_subagent_steps' \in {0, current_subagent_steps + 1}
             /\ (active' # Root => current_subagent_steps' = current_subagent_steps + 1)
     /\ (Generated /\ active = Root) => current_subagent_steps' = 0
     /\ current_subagent_steps' \in 0..max_subagent_steps
     /\ (max_subagent_steps = 0 /\ active # Root) => ~Generated
    ]_vars

C5_Witness ==
  /\ active = Mail
  /\ max_subagent_steps >= 1
  /\ current_subagent_steps = max_subagent_steps
  /\ LastEntry(convo) = SystemEntry(SUBAGENT_REMINDER, "")

\* C6: an iteration that starts with a non-root agent active that has used
\* max_subagent_steps consecutive steps appends exactly the step-limit
\* notice, makes the root active, resets the counter, generates nothing,
\* calls no tool and counts in total_steps.
C6_CircuitBreaker ==
  [][(/\ pc = "loop"
      /\ total_steps' # total_steps
      /\ active # Root
      /\ current_subagent_steps >= max_subagent_steps)
       => /\ convo' = Append(convo, SystemEntry(SUBAGENT_STEP_LIMIT_MESSAGE, ""))
          /\ active' = Root
          /\ current_subagent_steps' = 0
          /\ generations' = generations
          /\ tool_calls' = tool_calls
          /\ total_steps' = total_steps + 1
    ]_vars

C6_Witness ==
  /\ max_subagent_steps >= 1
  /\ LastEntry(convo) = SystemEntry(SUBAGENT_STEP_LIMIT_MESSAGE, "")
  /\ active = Root
  /\ current_subagent_steps = 0
  /\ generations = total_steps - 1

\* C7: handoff(target) raises whenever target is the agent's own name,
\* whatever the handoffs list holds.
C7_NoSelfHandoff ==
  (h_called /\ h_target = h_self) => h_result.raised

C7_Witness ==
  /\ h_called
  /\ h_target = h_self
  /\ FindAgent(h_list, h_self) # <<>>
  /\ h_result.raised

\* C8: the active agent changes only by the circuit breaker (to the root,
\* without a generation) or by a generated hand-off marker that names the new
\* active agent, which is in the old one's handoffs list and is not the old one.
C8_PermittedTransitions ==
  [][active' # active
       => \/ /\ ~Generated
             /\ active # Root
             /\ current_subagent_steps >= max_subagent_steps
             /\ active' = Root
             /\ LastEntry(convo') = SystemEntry(SUBAGENT_STEP_LIMIT_MESSAGE, "")
          \/ /\ Generated
             /\ detect_handoff(assistant_txt') = << active' >>
             /\ FindAgent(handoffs[active], active') # <<>>
    ]_vars

C8_Witness ==
  /\ active = Mail
  /\ LastEntry(convo) = AssistantEntry(<<HandoffItem(Mail)>>)
  /\ current_subagent_steps = 0

\* C9: a generating step that reaches the hand-off check with a marker naming
\* the agent itself or a name outside its handoffs list appends the assistant
\* entry and then one system entry with the hand-off error, keeps the active
\* agent and stays in the loop.
C9_HandoffFailure ==
  [][(/\ Generated
      /\ ReachesHandoffCheck(active, assistant_txt')
      /\ TruthyTarget(detect_handoff(assistant_txt'))
      /\ \/ detect_handoff(assistant_txt')[1] = active
         \/ FindAgent(handoffs[active], detect_handoff(assistant_txt')[1]) = <<>>)
       => /\ Len(convo') = Len(convo) + 2
          /\ SubSeq(convo', 1, Len(convo)) = convo
          /\ convo'[Len(convo) + 1] = AssistantEntry(assistant_txt')
          /\ LastEntry(convo').role = "system"
          /\ LastEntry(convo').content.fmt = "Handoff failed"
          /\ active' = active
          /\ pc' = "loop"
    ]_vars

C9_Witness ==
  /\ pc = "loop"
  /\ active = Mail
  /\ Len(convo) >= 2
  /\ convo[Len(convo) - 1] = AssistantEntry(<<HandoffItem(Mail)>>)
  /\ LastEntry(convo) = SystemEntry("Handoff failed", "Cannot hand off to self")

\* C10: a generating step whose text yields a tool call with a name, which
\* returns without raising, appends the assistant entry and then the
\* tool result, two entries in all, keeps the active agent and adds exactly 1
\* to total_steps.
C10_ToolCallStep ==
  [][(/\ Generated
      /\ ReachesToolCheck(active, assistant_txt')
      /\ TruthyTc(extract_tool_call(assistant_txt'))
      /\ "name" \in extract_tool_call(assistant_txt')[1].keys
      /\ ~tool_raised')
       => /\ convo' = convo \o
               << AssistantEntry(assistant_txt'),
                  SystemEntry("tool_result", tool_resp'.content) >>
          /\ ~tool_resp'.isError
          /\ active' = active
          /\ total_steps' = total_steps + 1
          /\ tool_calls' = tool_calls + 1
    ]_vars

C10_Witness ==
  /\ active = Root
  /\ total_steps = 1
  /\ Len(convo) = 3
  /\ convo[2] = AssistantEntry(<<ToolCallItem("log_ticket")>>)
  /\ convo[3] = SystemEntry("tool_result", "log_ticket")

\* C11: a generating step that reaches the tool check with a non-empty
\* tool-call object whose invocation fails (no name in the object, name not
\* registered on the agent's server, handler raising, unreadable response)
\* appends the assistant entry and then exactly one system entry with the
\* error message, keeps the active agent and stays in the loop; a tool-call
\* object without a name or with an unregistered name always fails.
C11_ToolFailureRecovered ==
  [][(/\ Generated
      /\ ReachesToolCheck(active, assistant_txt')
      /\ TruthyTc(extract_tool_call(assistant_txt')))
       => LET tc == extract_tool_call(assistant_txt')[1] IN
          /\ ("name" \notin tc.keys) => (tool_raised' /\ tool_calls' = tool_calls)
          /\ ("name" \in tc.keys /\ tc.name \notin ServerTools[active]) => tool_raised'
          /\ tool_raised'
               => /\ Len(convo') = Len(convo) + 2
                  /\ SubSeq(convo', 1, Len(convo)) = convo
                  /\ convo'[Len(convo) + 1] = AssistantEntry(assistant_txt')
                  /\ LastEntry(convo').role = "system"
                  /\ LastEntry(convo').content.fmt = "Tool error"
                  /\ LastEntry(convo').content.arg # ""
                  /\ active' = active
                  /\ pc' = "loop"
                  /\ total_steps' = total_steps + 1
    ]_vars

C11_Witness ==
  /\ pc = "loop"
  /\ active = Mail
  /\ tool_raised
  /\ Len(convo) >= 2
  /\ convo[Len(convo) - 1] = AssistantEntry(<<ToolCallItem("inspect_email")>>)
  /\ LastEntry(convo) = SystemEntry("Tool error", "JSONDecodeError")

\* C19 (as claimed): whatever fails inside a step, run_agentic_workflow is
\* left only in a terminal state (the loop ended by the root's termination
\* marker or by the step budget) with the transcript built so far written.
C19_AlwaysCompletes ==
  (pc \notin {"loop", "after_loop"})
    => /\ pc = "done"
       /\ loop_exit \in {"break", "exhausted"}
       /\ saved = << convo >>

\* C20: nothing is written while the loop runs or before the last entry is
\* appended; a run that ends has written the transcript exactly once, what
\* was written is the final transcript, and the step that writes is the one
\* that appends the last entry.
C20_PersistedOnce ==
  /\ [](pc \in {"loop", "after_loop", "raised"} => (writes = 0 /\ saved = <<>>))
  /\ [](pc = "done" => (writes = 1 /\ saved = << convo >>))
  /\ [][/\ writes' # writes => (pc = "after_loop" /\ pc' = "done" /\ saved' = << convo' >>)
        /\ pc = "done" => (convo' = convo /\ saved' = saved)
       ]_vars

C20_Witness ==
  /\ pc = "done"
  /\ loop_exit = "exhausted"
  /\ writes = 1
  /\ Len(saved) = 1
  /\ LastEntry(saved[1]) = SystemEntry(MAX_TOTAL_STEPS_MESSAGE, "")
  /\ Len(saved[1]) >= 4

\* the requests unanswered by the server: written by the client and not yet
\* read, or read and being handled
Outstanding == Len(stdin_pipe) + (IF s_pc = "handle" THEN 1 ELSE 0)

\* C12: when the server answers a call_tool request, the response to a
\* registered name whose handler returns is {content: the handler's result,
\* isError: false}; the response to a name that is not registered has
\* isError true and a non-empty error, and no handler ran.
C12_HandleCallTool ==
  [][(s_pc = "handle" /\ s_pc' = "read" /\ s_req.type = "call_tool")
       => LET line == stdout_pipe'[Len(stdout_pipe')]
              name == s_req.name
          IN  /\ line.kind = "json"
              /\ line.for = s_req.id
              /\ (name \in ToolNamesOf(s_tools) /\ HandlerReturns(s_handler'))
                   => line.resp = [isError |-> FALSE, content |-> name, error |-> ""]
              /\ (name \in ToolNamesOf(s_tools)) => s_handler' # "none"
              /\ (name \notin ToolNamesOf(s_tools))
                   => /\ line.resp.isError
                      /\ line.resp.error # ""
                      /\ s_handler' = "none"
    ]_vars

C12_Witness ==
  /\ ch_agent = Root
  /\ \E i, j \in 1..Len(c_returned) :
       /\ c_returned[i].req = call_tool(i, "log_ticket")
       /\ c_returned[i].line.resp = [isError |-> FALSE, content |-> "log_ticket", error |-> ""]
       /\ c_returned[j].req = call_tool(j, "inspect_email")
       /\ c_returned[j].line.resp.isError
       /\ c_returned[j].line.resp.error = "not found"

\* C13 (as claimed): whatever call_tool request the client sends, the server
\* stays alive and has written exactly one response for every request it
\* took from its input.
C13_ServerAlwaysAnswers ==
  /\ s_pc # "dead"
  /\ s_written = Len(c_sent) - Outstanding

\* C14 (as claimed): at most one request is unanswered at any moment, and
\* whenever the client is free to send a request none is unanswered.
C14_Alternation ==
  /\ Outstanding <= 1
  /\ c_pc \in {"new", "idle"} => Outstanding = 0

\* C15 (as claimed): while every request is list_tools or a call of a
\* registered tool, what each round trip gave its caller is the server's
\* JSON response to that very request.
C15_FramingInSync ==
  (\A i \in 1..Len(c_sent) :
      c_sent[i].type = "list_tools" \/ c_sent[i].name \in ToolNamesOf(s_tools))
    => \A i \in 1..Len(c_returned) :
         /\ c_returned[i].raised = ""
         /\ c_returned[i].line.kind = "json"
         /\ c_returned[i].line.for = c_returned[i].req.id

\* C16 (as claimed): after a round trip that failed on an unparseable line,
\* the next call_tool of a registered tool returns the server's response to
\* that call.
C16_FailureLocalToCall ==
  \A i \in 1..(Len(c_returned) - 1) :
    (/\ c_returned[i].raised = "JSONDecodeError"
     /\ c_returned[i + 1].req.type = "call_tool"
     /\ c_returned[i + 1].req.name \in ToolNamesOf(s_tools))
      => /\ c_returned[i + 1].raised = ""
         /\ c_returned[i + 1].line.kind = "json"
         /\ c_returned[i + 1].line.for = c_returned[i + 1].req.id

\* C17: the first request an agent's client writes is list_tools, sent by
\* the constructor, and it is the only one: every later request is a
\* call_tool; once constructed, the agent's tool list is what that
\* list_tools returned and it never changes.
C17_ListToolsOnce ==
  /\ [](\A i \in 1..Len(c_sent) :
          IF i = 1 THEN c_sent[i].type = "list_tools" ELSE c_sent[i].type = "call_tool")
  /\ [](c_pc \in {"idle", "wait_call"} => c_tools = ListToolsResponse(s_tools))
  /\ [][/\ (c_pc \in {"idle", "wait_call"}) => c_tools' = c_tools
        /\ (c_sent' # c_sent /\ c_pc = "new") => c_sent' = << list_tools(1) >>
       ]_vars

C17_Witness ==
  /\ c_pc = "idle"
  /\ Len(c_sent) = 1 + MaxCalls
  /\ Len(c_returned) = 1 + MaxCalls
  /\ c_tools = ListToolsResponse(s_tools)
  /\ c_tools # <<>>

\* the names of a sequence, each at the place of its first occurrence
RECURSIVE FirstOccurrences(_)
FirstOccurrences(names) ==
  IF names = <<>> THEN <<>>
  ELSE LET before == FirstOccurrences(SubSeq(names, 1, Len(names) - 1))
           last == names[Len(names)]
       IN  IF \E i \in 1..Len(before) : before[i] = last
           THEN before
           ELSE Append(before, last)

\* the position of the last registration of a name
LastRegistration(names, n) ==
  CHOOSE i \in 1..Len(names) :
    names[i] = n /\ \A j \in (i + 1)..Len(names) : names[j] # n

\* C18: list_tools after any sequence of registrations returns one
\* descriptor per registered name, no name twice, in the order in which the
\* names were first registered; the descriptor of a name registered again
\* is that of its last registration.
C18_ListToolsOrder ==
  listed.at >= 0 =>
    LET done == SubSeq(regs, 1, listed.at)
        names == FirstOccurrences(done)
    IN  /\ Len(listed.tools) = Cardinality({done[i] : i \in 1..Len(done)})
        /\ [i \in 1..Len(listed.tools) |-> listed.tools[i].name] = names
        /\ \A i, j \in 1..Len(listed.tools) :
             i # j => listed.tools[i].name # listed.tools[j].name
        /\ \A i \in 1..Len(listed.tools) :
             listed.tools[i].inputSchema = LastRegistration(done, listed.tools[i].name)

C18_Witness ==
  /\ listed.at = MaxRegs
  /\ Len(regs) = MaxRegs
  /\ regs[1] = regs[MaxRegs]
  /\ regs[2] # regs[1]
  /\ Len(listed.tools) = 2
  /\ listed.tools[1] = Descriptor(ToolEntry(regs[1], MaxRegs))

IsPrefix(c, d) == Len(c) <= Len(d) /\ SubSeq(d, 1, Len(c)) = c

\* C22: the transcript only grows at its end and always starts with the
\* initial system message; a completed iteration appends one or two entries;
\* a generating iteration appends the assistant entry of its text first and
\* at most one system entry after it; an iteration without generation
\* appends no assistant entry.
C22_AppendOnly ==
  /\ [](Len(convo) >= 1 /\ convo[1] = SystemEntry(SYSTEM_START_MESSAGE, ""))
  /\ [][/\ IsPrefix(convo, convo')
        /\ (total_steps' # total_steps /\ pc' # "raised")
             => Len(convo') - Len(convo) \in {1, 2}
        /\ Generated
             => /\ convo'[Len(convo) + 1] = AssistantEntry(assistant_txt')
                /\ \A i \in (Len(convo) + 2)..Len(convo') : convo'[i].role = "system"
        /\ generations' = generations
             => \A i \in (Len(convo) + 1)..Len(convo') : convo'[i].role = "system"
       ]_vars

C22_Witness ==
  /\ pc = "loop"
  /\ total_steps = 3
  /\ max_subagent_steps = 1
  /\ Len(convo) = 5
  /\ convo[2] = AssistantEntry(<< HandoffItem(Mail) >>)
  /\ convo[3] = AssistantEntry(<< Prose >>)
  /\ convo[4] = SystemEntry(SUBAGENT_REMINDER, "")
  /\ convo[5] = SystemEntry(SUBAGENT_STEP_LIMIT_MESSAGE, "")

\* the text holds a tool-call block and extract_tool_call finds no usable
\* call in it (None, or the empty object)
MalformedToolCall(text) ==
  /\ HasKind(text, "tc")
  /\ LET tc == extract_tool_call(text) IN tc = <<>> \/ tc[1].keys = {}

RoleReminder(agent) ==
  SystemEntry(IF agent = Root THEN ORCHESTRATOR_REMINDER ELSE SUBAGENT_REMINDER, "")

\* C23 (as claimed): a generating step that reaches the tool check with a
\* tool-call block whose payload gives no usable call invokes no tool,
\* appends the reminder after the assistant entry, performs no hand-off and
\* keeps the active agent.
C23_MalformedGoesToReminder ==
  [][(/\ Generated
      /\ ReachesToolCheck(active, assistant_txt')
      /\ MalformedToolCall(assistant_txt'))
       => /\ tool_calls' = tool_calls
          /\ convo' = convo \o << AssistantEntry(assistant_txt'), RoleReminder(active) >>
          /\ active' = active
    ]_vars

\* C23 (amended): such a step invokes no tool and appends no tool result or
\* tool error; it goes on to the hand-off check: with a non-empty hand-off
\* target in the text the hand-off is performed or its error appended, and
\* only without one the reminder is appended after the assistant entry and
\* the active agent is unchanged.
C23_MalformedFallsThrough ==
  [][(/\ Generated
      /\ ReachesToolCheck(active, assistant_txt')
      /\ MalformedToolCall(assistant_txt'))
       => LET target == detect_handoff(assistant_txt')
              c1 == Append(convo, AssistantEntry(assistant_txt'))
          IN  /\ tool_calls' = tool_calls
              /\ tool_resp' = tool_resp
              /\ pc' = "loop"
              /\ IF TruthyTarget(target)
                 THEN LET r == handoff(active, handoffs[active], target[1]) IN
                      IF r.raised
                      THEN /\ convo' = Append(c1, SystemEntry("Handoff failed", r.msg))
                           /\ active' = active
                      ELSE /\ convo' = c1
                           /\ active' = r.agent
                 ELSE /\ convo' = Append(c1, RoleReminder(active))
                      /\ active' = active
    ]_vars

C23_Witness ==
  /\ pc = "loop"
  /\ total_steps = 2
  /\ tool_calls = 0
  /\ active = Mail
  /\ Len(convo) = 4
  /\ convo[2] = AssistantEntry(<< ToolCallItem("badjson") >>)
  /\ convo[3] = SystemEntry(ORCHESTRATOR_REMINDER, "")
  /\ convo[4] = AssistantEntry(<< ToolCallItem("badjson"), HandoffItem(Mail) >>)

\* the text holds tool-call blocks and none can be read as a call: no block
\* starts with a brace, or the first that does is not JSON
Unparsable(text) ==
  LET braced == {i \in 1..Len(text) : text[i].k = "tc" /\ text[i].v # "nobrace"} IN
  /\ HasKind(text, "tc")
  /\ \/ braced = {}
     \/ \E i \in braced : text[i].v = "badjson" /\ \A j \in braced : i <= j

\* the text without its tool-call blocks
RECURSIVE WithoutToolCalls(_)
WithoutToolCalls(text) ==
  IF text = <<>> THEN <<>>
  ELSE IF Head(text).k = "tc" THEN WithoutToolCalls(Tail(text))
  ELSE << Head(text) >> \o WithoutToolCalls(Tail(text))

\* what a step past the termination test does with a text that has no
\* tool-call block: the hand-off named first in the text, else the reminder
NoToolCallOutcome(agent, text) ==
  LET marks == SelectSeq(text, LAMBDA it : it.k = "ho") IN
  IF marks # <<>> /\ marks[1].v # ""
  THEN IF marks[1].v # agent /\ \E i \in 1..Len(handoffs[agent]) : handoffs[agent][i] = marks[1].v
       THEN [active |-> marks[1].v, said |-> <<>>]
       ELSE [active |-> agent, said |-> << "Handoff failed" >>]
  ELSE [active |-> agent,
        said |-> << IF agent = Root THEN ORCHESTRATOR_REMINDER ELSE SUBAGENT_REMINDER >>]

\* C24: a generating step that reaches the tool check with a tool-call block
\* that cannot be parsed raises nothing, invokes no tool, and does what it
\* would do on the same text without tool-call blocks: the hand-off check
\* and, without a hand-off target, the reminder.
C24_MalformedAsAbsent ==
  [][(/\ Generated
      /\ ReachesToolCheck(active, assistant_txt')
      /\ Unparsable(assistant_txt'))
       => LET expected == NoToolCallOutcome(active, WithoutToolCalls(assistant_txt'))
              added == SubSeq(convo', Len(convo) + 2, Len(convo'))
          IN  /\ pc' = "loop"
              /\ tool_raised' = tool_raised
              /\ tool_calls' = tool_calls
              /\ convo'[Len(convo) + 1] = AssistantEntry(assistant_txt')
              /\ active' = expected.active
              /\ [i \in 1..Len(added) |-> added[i].content.fmt] = expected.said
    ]_vars

C24_Witness ==
  /\ pc = "loop"
  /\ active = Mail
  /\ ~tool_raised
  /\ tool_calls = 0
  /\ Len(convo) >= 3
  /\ convo[Len(convo) - 1] = AssistantEntry(<< ToolCallItem("badjson") >>)
  /\ LastEntry(convo) = SystemEntry(SUBAGENT_REMINDER, "")

\* the fragments 1..n of the generation, joined
Accumulated(n) == Flatten(SubSeq(g_stream, 1, n))

\* the text holds a complete tool-call block, a complete hand-off block or,
\* for the root, the termination marker
CompleteMarker(text, isRoot) ==
  \E i \in 1..Len(text) :
    text[i].k \in {"tc", "ho"} \/ (isRoot /\ text[i].k = "term")

\* the text holds "</tool_call>", "</handoff>" or, for the root, "</terminate>"
ClosingTag(text, isRoot) ==
  \E i \in 1..Len(text) :
    text[i].k \in {"tc", "tcend", "ho", "hoend"} \/ (isRoot /\ text[i].k = "term")

\* C25 (as claimed): fragments are pulled one at a time; when the for-loop
\* has ended, it pulled up to the first fragment at which the accumulated
\* text holds a complete marker and none after it, and the whole generation
\* when no fragment completes a marker.
C25_StopsAtCompleteMarker ==
  g_pc \in {"broke", "exhausted"}
    => LET stops == {n \in 1..Len(g_stream) : CompleteMarker(Accumulated(n), active = Root)}
       IN  /\ assistant_txt = Accumulated(g_pulled)
           /\ IF stops = {}
              THEN g_pulled = Len(g_stream)
              ELSE g_pulled \in stops /\ \A n \in stops : g_pulled <= n

\* C25 (amended): fragments are pulled one at a time, each added to the text
\* before the next is pulled; the for-loop pulls up to the first fragment at
\* which the accumulated text holds a closing tag of a tool call or of a
\* hand-off or, for the root, the termination marker, and none after it; it
\* pulls the whole generation when no such fragment exists; the text it
\* leaves is the text the step acts on.
C25_StopsAtClosingTag ==
  /\ [](g_pc \in {"broke", "exhausted"}
         => LET stops == {n \in 1..Len(g_stream) : ClosingTag(Accumulated(n), active = Root)}
            IN  /\ assistant_txt = Accumulated(g_pulled)
                /\ assistant_txt = ConsumeStream(g_stream, active = Root)
                /\ (g_pc = "broke") <=> (stops # {})
                /\ IF stops = {}
                   THEN g_pulled = Len(g_stream)
                   ELSE g_pulled \in stops /\ \A n \in stops : g_pulled <= n)
  /\ [][/\ g_pulled' \in {g_pulled, g_pulled + 1}
        /\ g_pulled' = g_pulled + 1 => assistant_txt' = assistant_txt \o g_stream[g_pulled']
        /\ g_pc \in {"broke", "exhausted"} => g_pulled' = g_pulled
       ]_vars

C25_Witness ==
  /\ active = Mail
  /\ g_pc = "broke"
  /\ Len(g_stream) = MaxFragments
  /\ g_pulled = 2
  /\ assistant_txt = << TermItem, TcEnd >>

\* the entries a step appended after its assistant entry
AddedAfterAssistant == SubSeq(convo', Len(convo) + 2, Len(convo'))

\* C27: a generating step does exactly one of four things, the first that
\* applies: the root's termination marker ends the loop with no tool invoked
\* and no hand-off, even with a tool-call block in the text; else a tool-call
\* block that parses to a non-empty object takes the tool branch (the tool
\* is invoked when the object names one) and appends one tool result or tool
\* error, with no hand-off even with a hand-off marker in the text; else a
\* non-empty hand-off target is acted on with no tool invoked; else one
\* reminder is appended.
C27_OneActionByPrecedence ==
  [][Generated
       => LET txt == assistant_txt'
              tc == extract_tool_call(txt)
              target == detect_handoff(txt)
              added == AddedAfterAssistant
          IN  /\ Len(convo') > Len(convo)
              /\ SubSeq(convo', 1, Len(convo) + 1) = Append(convo, AssistantEntry(txt))
              /\ IF active = Root /\ HasKind(txt, "term")
                 THEN /\ pc' = "after_loop"
                      /\ loop_exit' = "break"
                      /\ added = <<>>
                      /\ tool_calls' = tool_calls
                      /\ active' = active
                 ELSE IF tc # <<>> /\ tc[1].keys # {}
                 THEN /\ pc' = "loop"
                      /\ Len(added) = 1
                      /\ added[1].content.fmt \in {"tool_result", "Tool error"}
                      /\ tool_calls' = tool_calls + (IF "name" \in tc[1].keys THEN 1 ELSE 0)
                      /\ active' = active
                 ELSE IF target # <<>> /\ target[1] # ""
                 THEN /\ pc' = "loop"
                      /\ tool_calls' = tool_calls
                      /\ \/ added = <<>> /\ active' = target[1] /\ active' # active
                         \/ /\ Len(added) = 1
                            /\ added[1].content.fmt = "Handoff failed"
                            /\ active' = active
                 ELSE /\ pc' = "loop"
                      /\ tool_calls' = tool_calls
                      /\ added = << RoleReminder(active) >>
                      /\ active' = active
    ]_vars

\* the root's first turn held a tool call and a hand-off marker: the tool was
\* invoked and failed, the root stayed active; its second turn held the
\* termination marker and a tool call: the loop ended with no second call
C27_Witness ==
  /\ pc = "after_loop"
  /\ loop_exit = "break"
  /\ active = Root
  /\ tool_calls = 1
  /\ Len(convo) = 4
  /\ convo[2] = AssistantEntry(<< ToolCallItem("log_ticket"), HandoffItem(Mail) >>)
  /\ convo[3].content.fmt = "Tool error"
  /\ convo[4] = AssistantEntry(<< TermItem, ToolCallItem("log_ticket") >>)

\* the text gives the agent no action: no tool-call block that parses to a
\* non-empty object, no hand-off marker with a non-empty target and, for the
\* root, no termination marker
NoRecognizedAction(agent, text) ==
  /\ LET tc == extract_tool_call(text) IN tc = <<>> \/ tc[1].keys = {}
  /\ LET target == detect_handoff(text) IN target = <<>> \/ target[1] = ""
  /\ ~(agent = Root /\ HasKind(text, "term"))

\* C28: a generating step whose text gives no recognized action appends,
\* after the assistant entry, exactly one reminder, the root's reminder when
\* the root is active and the sub-agent's otherwise, and keeps the active
\* agent; the loop goes on.
C28_ReminderOnNoAction ==
  [][(Generated /\ NoRecognizedAction(active, assistant_txt'))
       => /\ convo' = convo \o << AssistantEntry(assistant_txt'),
                                  SystemEntry(IF active = Root THEN ORCHESTRATOR_REMINDER
                                                               ELSE SUBAGENT_REMINDER, "") >>
          /\ ORCHESTRATOR_REMINDER # SUBAGENT_REMINDER
          /\ active' = active
          /\ pc' = "loop"
          /\ tool_calls' = tool_calls
    ]_vars

\* the root was reminded after a turn of prose, handed off, and the
\* sub-agent was reminded after a turn holding only the termination marker
C28_Witness ==
  /\ pc = "loop"
  /\ active = Mail
  /\ Len(convo) = 6
  /\ convo[2] = AssistantEntry(<< Prose >>)
  /\ convo[3] = SystemEntry(ORCHESTRATOR_REMINDER, "")
  /\ convo[4] = AssistantEntry(<< HandoffItem(Mail) >>)
  /\ convo[5] = AssistantEntry(<< TermItem >>)
  /\ convo[6] = SystemEntry(SUBAGENT_REMINDER, "")

\* the object a payload that is valid JSON parses to
ParsedPayload(p) ==
  [keys |-> IF p = "empty" THEN {} ELSE IF p = "noname" THEN {"arguments"}
                                   ELSE {"name", "arguments"},
   name |-> IF p \in {"empty", "noname"} THEN "" ELSE p]

\* positions of the tool-call blocks whose payload is valid JSON, and of
\* those whose payload begins with a brace
WellFormedBlocks(text) ==
  {i \in 1..Len(text) : text[i].k = "tc" /\ text[i].v \notin {"nobrace", "badjson"}}
BracedBlocks(text) ==
  {i \in 1..Len(text) : text[i].k = "tc" /\ text[i].v # "nobrace"}

\* C29 (as claimed): extract_tool_call returns the first tool-call block
\* whose payload is well-formed, whatever blocks stand before it, and
\* nothing only when no block is well-formed.
C29_FirstWellFormedWins ==
  g_pc = "extracted"
    => LET wf == WellFormedBlocks(assistant_txt) IN
       IF wf = {}
       THEN extracted = <<>>
       ELSE \E i \in wf : /\ \A j \in wf : i <= j
                          /\ extracted = << ParsedPayload(assistant_txt[i].v) >>

\* C29 (amended): extract_tool_call reads only the first tool-call block
\* whose payload begins with a brace, passing over blocks whose payload does
\* not; it returns that block's object when the payload is well-formed and
\* nothing when it is malformed, even when a later block is well-formed; it
\* returns nothing when no block has a payload that begins with a brace. So
\* it returns the first well-formed block exactly when no malformed payload
\* beginning with a brace stands before it.
C29_FirstBracedBlockDecides ==
  g_pc = "extracted"
    => LET braced == BracedBlocks(assistant_txt)
           wf == WellFormedBlocks(assistant_txt)
       IN  IF braced = {}
           THEN extracted = <<>>
           ELSE \E i \in braced :
                  /\ \A j \in braced : i <= j
                  /\ extracted = IF i \in wf THEN << ParsedPayload(assistant_txt[i].v) >>
                                             ELSE <<>>

C29_Witness ==
  /\ g_pc = "extracted"
  /\ assistant_txt = << ToolCallItem("nobrace"), ToolCallItem("badjson"),
                        ToolCallItem("log_ticket") >>
  /\ extracted = << >>

\* C26 (as claimed): a tool call is the only operation in flight while it
\* runs: the server handles a request only while the loop is blocked in the
\* round trip that sent that very request, with no other request waiting, so
\* that no handler runs while the loop generates or makes another call.
C26_OneOperationInFlight ==
  s_pc = "handle"
    => /\ c_pc \in {"wait_list", "wait_call"}
       /\ stdin_pipe = <<>>
       /\ s_req = c_sent[Len(c_sent)]

\* C30 (as claimed): report_to_orchestrator, called while the Orchestrator
\* is alive, returns status success and appends the report to the data of
\* the Orchestrator's own workspace file, the file its prompt reads.
C30_ReportReachesOrchestrator ==
  [][(/\ ws_calls' = ws_calls + 1
      /\ ws_ret'.tool = "report_to_orchestrator"
      /\ Root \in alive)
       => /\ ws_ret'.status = "success"
          /\ get_content(files', fs_case_sensitive, Root)
               = Append(get_content(files, fs_case_sensitive, Root), ws_ret'.arg)
    ]_vars

\* C31 (as claimed): a successful assign_task for an agent whose workspace
\* already holds an assigned task keeps all the data that was there and adds
\* the new task after it, and adds one task_assigned entry at the end of
\* the logs.
C31_AssignTaskAppends ==
  [][(/\ ws_calls' = ws_calls + 1
      /\ ws_ret'.tool = "assign_task"
      /\ ws_ret'.status = "success")
       => \A k \in DOMAIN files :
            (/\ files'[k] # files[k]
             /\ \E i \in 1..Len(files[k].log) : files[k].log[i] = "task_assigned")
              => /\ Len(files'[k].data) = Len(files[k].data) + 1
                 /\ SubSeq(files'[k].data, 1, Len(files[k].data)) = files[k].data
                 /\ files'[k].log = Append(files[k].log, "task_assigned")
    ]_vars

====
